---- MODULE Spec2Model ----
(***************************************************************************)
(* Model of the OpenSCAP plugin server's result correlation                *)
(* (PluginServer.GetResults and its helpers parseCheck, mapResultStatus,   *)
(* checks.LoadPolicy and checks.Has).                                      *)
(*                                                                         *)
(* Strings whose characters matter (check names, check ids) are sequences  *)
(* of one-character strings.  Optional XML nodes are sequences of length   *)
(* at most one: <<>> is a nil node, <<v>> a node with content v.           *)
(* Timestamps (time.Now()) of an observation are left out of the record.   *)
(*                                                                         *)
(* A parsed results document is a record: target is the //target element,  *)
(* rules the rule nodes keyed by rule id (what xccdf.NewRuleHashTable      *)
(* hands back, each rule being the sequence of its check elements in       *)
(* document order), results the //rule-result nodes in document order.     *)
(* The scan, the opening of the ARF file and its parsing are external and  *)
(* may each fail.                                                          *)
(***************************************************************************)
EXTENDS Integers, Sequences, FiniteSets, TLC

VARIABLES pc, policy, policyChecks, xmlnode, target, ruleTable, i,
          pvpResults, ret, raw, token, out

vars == <<pc, policy, policyChecks, xmlnode, target, ruleTable, i,
          pvpResults, ret, raw, token, out>>

(* ----------------------------- bounds ---------------------------------- *)

MaxLen == 6

MaxResults == 2

(* ---------------------------- constants -------------------------------- *)

ovalCheckType == "http://oval.mitre.org/XMLSchema/oval-definitions-5"

ocilCheckType == "http://scap.nist.gov/schema/ocil/2"

NoErr == "nil"

ErrNoTarget == "result has no 'target' attribute"

ErrNoName == "check-content-ref node has no 'name' attribute"

ErrCheckFormat == "check id is in unexpected format"

ErrNoResult == "result node has no 'result' attribute"

ErrNoMatch == "couldn't match"

ErrScan == "scan failed"

ErrOpen == "open failed"

ErrParse == "parse failed"

ResultPass == "pass"

ResultFail == "fail"

ResultError == "error"

ResultInvalid == "invalid"

ARF == "arf.xml"

(* --------------------------- strings ----------------------------------- *)

Whitespace == {" ", "\n", "\t", "\r"}

Alphabet == {":", "-", "a", " ", "\n"}

RECURSIVE TrimLeft(_)
TrimLeft(s) ==
    IF s # <<>> /\ Head(s) \in Whitespace THEN TrimLeft(Tail(s)) ELSE s

RECURSIVE TrimRight(_)
TrimRight(s) ==
    IF s # <<>> /\ s[Len(s)] \in Whitespace
    THEN TrimRight(SubSeq(s, 1, Len(s) - 1))
    ELSE s

TrimSpace(s) == TrimRight(TrimLeft(s))

(* ovalRegex = ^[^:]*?:[^-]*?-(.*?):.*?$                                   *)
(* The set of the ways the pattern matches the whole of s.  A match is a   *)
(* triple <<c, h, e>>: s[c] is the colon ending [^:]*?, s[h] the hyphen    *)
(* ending [^-]*?, s[e] the colon ending the group (.*?); "." does not      *)
(* match a line feed and ^, $ anchor at the ends of the text.              *)
NoneIn(s, lo, hi, cs) == \A n \in lo..hi : s[n] \notin cs

ovalRegex(s) ==
    UNION {UNION {{<<c, h, e>> : e \in {n \in (h + 1)..Len(s) :
                                         /\ s[n] = ":"
                                         /\ NoneIn(s, h + 1, n - 1, {"\n"})
                                         /\ NoneIn(s, n + 1, Len(s), {"\n"})}} :
                  h \in {n \in (c + 1)..Len(s) :
                            s[n] = "-" /\ NoneIn(s, c + 1, n - 1, {"-"})}} :
           c \in {n \in 1..Len(s) : s[n] = ":" /\ NoneIn(s, 1, n - 1, {":"})}}

(* The preferred match of the non-greedy group: the shortest one.          *)
Lazy(ms) == CHOOSE m \in ms : \A o \in ms : m[3] <= o[3]

Greedy(ms) == CHOOSE m \in ms : \A o \in ms : m[3] >= o[3]

FindStringSubmatch_greedy(s) ==
    IF ovalRegex(s) = {} THEN <<>>
    ELSE LET m == Greedy(ovalRegex(s))
         IN  <<s, SubSeq(s, m[2] + 1, m[3] - 1)>>

FindStringSubmatch(s) ==
    IF ovalRegex(s) = {} THEN <<>>
    ELSE LET m == Lazy(ovalRegex(s))
         IN  <<s, SubSeq(s, m[2] + 1, m[3] - 1)>>

parseCheck_notrim(name) ==
    IF name = <<>> THEN [name |-> <<>>, err |-> ErrNoName]
    ELSE LET matches == FindStringSubmatch(name)
         IN  IF Len(matches) < 2
             THEN [name |-> <<>>, err |-> ErrCheckFormat]
             ELSE [name |-> matches[2], err |-> NoErr]

parseCheck(name) ==
    LET ovalCheckName == TrimSpace(name)
    IN  IF ovalCheckName = <<>> THEN [name |-> <<>>, err |-> ErrNoName]
        ELSE LET matches == FindStringSubmatch(ovalCheckName)
             IN  IF Len(matches) < 2
                 THEN [name |-> <<>>, err |-> ErrCheckFormat]
                 ELSE [name |-> matches[2], err |-> NoErr]

(* --------------------------- status mapper ----------------------------- *)

mapResultStatus_default(resultEl) ==
    IF resultEl = <<>> THEN [result |-> ResultInvalid, err |-> ErrNoResult]
    ELSE IF resultEl[1] \in {"pass", "fixed"}
         THEN [result |-> ResultPass, err |-> NoErr]
    ELSE IF resultEl[1] = "fail"
         THEN [result |-> ResultFail, err |-> NoErr]
    ELSE [result |-> ResultError, err |-> NoErr]

mapResultStatus_failAsError(resultEl) ==
    IF resultEl = <<>> THEN [result |-> ResultInvalid, err |-> ErrNoResult]
    ELSE IF resultEl[1] \in {"pass", "fixed"}
         THEN [result |-> ResultPass, err |-> NoErr]
    ELSE IF resultEl[1] \in {"fail", "notselected", "notapplicable",
                             "error", "unknown"}
         THEN [result |-> ResultError, err |-> NoErr]
    ELSE [result |-> ResultInvalid, err |-> ErrNoMatch]

mapResultStatus(resultEl) ==
    IF resultEl = <<>> THEN [result |-> ResultInvalid, err |-> ErrNoResult]
    ELSE IF resultEl[1] \in {"pass", "fixed"}
         THEN [result |-> ResultPass, err |-> NoErr]
    ELSE IF resultEl[1] = "fail"
         THEN [result |-> ResultFail, err |-> NoErr]
    ELSE IF resultEl[1] \in {"notselected", "notapplicable"}
         THEN [result |-> ResultError, err |-> NoErr]
    ELSE IF resultEl[1] \in {"error", "unknown"}
         THEN [result |-> ResultError, err |-> NoErr]
    ELSE [result |-> ResultInvalid, err |-> ErrNoMatch]

(* --------------------------- policy check set -------------------------- *)

newChecks == {}

RECURSIVE LoadRule(_, _)
LoadRule(c, ruleChecks) ==
    IF ruleChecks = <<>> THEN c
    ELSE LoadRule(c \cup {Head(ruleChecks)}, Tail(ruleChecks))

RECURSIVE LoadPolicy(_, _)
LoadPolicy(c, oscalPolicy) ==
    IF oscalPolicy = <<>> THEN c
    ELSE LoadPolicy(LoadRule(c, Head(oscalPolicy)), Tail(oscalPolicy))

Has(c, check) == check \in c

(* --------------------------- correlator -------------------------------- *)

(* The check-content-ref of the first check of the OVAL system, or nil.    *)
RECURSIVE ovalRefEl(_)
ovalRefEl(ruleChecks) ==
    IF ruleChecks = <<>> THEN <<>>
    ELSE IF Head(ruleChecks).system = ovalCheckType
         THEN Head(ruleChecks).ref
         ELSE ovalRefEl(Tail(ruleChecks))

InnerText(el) == IF el = <<>> THEN "" ELSE el[1]

NewObservation(ruleIDRef, ovalCheck, tgt, mappedResult, resultEl) ==
    [Title |-> ruleIDRef,
     Methods |-> <<"AUTOMATED">>,
     CheckID |-> ovalCheck,
     Subjects |-> <<[Title |-> <<"Host ", tgt>>,
                     Type |-> "inventory-item",
                     ResourceID |-> tgt,
                     Result |-> mappedResult,
                     Reason |-> <<"openscap rule-result is ", InnerText(resultEl)>>,
                     Props |-> <<[Name |-> "hostname", Value |-> tgt]>>]>>,
     RelevantEvidences |-> <<[Href |-> <<"file://", ARF>>,
                              Description |-> "ARF_FILE"]>>]

Continue == [kind |-> "continue", err |-> NoErr, obs |-> <<>>]

Abort(e) == [kind |-> "return", err |-> e, obs |-> <<>>]

Observe(o) == [kind |-> "append", err |-> NoErr, obs |-> <<o>>]

LoopBody_missingRuleIsError(result, table, c, tgt) ==
    IF result.idref \notin DOMAIN table THEN Abort("rule not found")
    ELSE LET ref == ovalRefEl(table[result.idref])
         IN  IF ref = <<>> THEN Continue
             ELSE LET chk == parseCheck(ref[1])
                  IN  IF chk.err # NoErr THEN Abort(chk.err)
                      ELSE IF Has(c, chk.name)
                           THEN LET m == mapResultStatus(result.result)
                                IN  IF m.err # NoErr THEN Abort(m.err)
                                    ELSE Observe(NewObservation(
                                             result.idref, chk.name, tgt,
                                             m.result, result.result))
                           ELSE Continue

LoopBody_skipMalformed(result, table, c, tgt) ==
    IF result.idref \notin DOMAIN table THEN Continue
    ELSE LET ref == ovalRefEl(table[result.idref])
         IN  IF ref = <<>> THEN Continue
             ELSE LET chk == parseCheck(ref[1])
                  IN  IF chk.err # NoErr THEN Continue
                      ELSE IF Has(c, chk.name)
                           THEN LET m == mapResultStatus(result.result)
                                IN  IF m.err # NoErr THEN Abort(m.err)
                                    ELSE Observe(NewObservation(
                                             result.idref, chk.name, tgt,
                                             m.result, result.result))
                           ELSE Continue

LoopBody_statusFirst(result, table, c, tgt) ==
    IF result.idref \notin DOMAIN table THEN Continue
    ELSE LET ref == ovalRefEl(table[result.idref])
         IN  IF ref = <<>> THEN Continue
             ELSE LET chk == parseCheck(ref[1])
                      m == mapResultStatus(result.result)
                  IN  IF chk.err # NoErr THEN Abort(chk.err)
                      ELSE IF m.err # NoErr THEN Abort(m.err)
                      ELSE IF Has(c, chk.name)
                           THEN Observe(NewObservation(
                                    result.idref, chk.name, tgt,
                                    m.result, result.result))
                           ELSE Continue

(* One iteration of the loop over the rule-result nodes.                   *)
LoopBody(result, table, c, tgt) ==
    IF result.idref \notin DOMAIN table THEN Continue
    ELSE LET ref == ovalRefEl(table[result.idref])
         IN  IF ref = <<>> THEN Continue
             ELSE LET chk == parseCheck(ref[1])
                  IN  IF chk.err # NoErr THEN Abort(chk.err)
                      ELSE IF Has(c, chk.name)
                           THEN LET m == mapResultStatus(result.result)
                                IN  IF m.err # NoErr THEN Abort(m.err)
                                    ELSE Observe(NewObservation(
                                             result.idref, chk.name, tgt,
                                             m.result, result.result))
                           ELSE Continue

AppendObservation_prepend(obs, o) == <<o>> \o obs

AppendObservation(obs, o) == Append(obs, o)

ErrorReturn_partial(obs, e) == [ObservationsByCheck |-> obs, err |-> e]

ErrorReturn(obs, e) == [ObservationsByCheck |-> <<>>, err |-> e]

TargetMissing_never(doc) == FALSE

TargetMissing(doc) == doc.target = <<>>


(* ----------------------------- inputs ---------------------------------- *)

Strings == UNION {[1..n -> Alphabet] : n \in 0..MaxLen}

OvalX == <<"o","v","a","l",":","s","s","g","-","X",":","d","e","f",":","1">>

OvalY == <<"o","v","a","l",":","s","s","g","-","Y",":","d","e","f",":","1">>

OvalSshd == <<"o","v","a","l",":","s","s","g","-","s","s","h","d","_",
              "e","n","a","b","l","e","d","-","1",":","d","e","f",":","1">>

NoColon == <<"s","s","g","-","X">>

Blank == <<" ">>

IdX == <<"X">>

IdY == <<"Y">>

IdZ == <<"Z">>

IdSshd == <<"s","s","h","d","_","e","n","a","b","l","e","d">>

IdSshd1 == <<"s","s","h","d","_","e","n","a","b","l","e","d","-","1">>

SampleNames == {OvalX, OvalSshd}

Tokens == {"pass", "fixed", "fail", "notselected", "notapplicable", "error",
           "unknown", "Pass", "FAIL", "pass ", "informational", ""}

Check(sys, name) == [system |-> sys, ref |-> <<name>>]

CheckNoRef(sys) == [system |-> sys, ref |-> <<>>]

RuleDefs ==
    {<<>>,
     <<Check(ocilCheckType, OvalX)>>,
     <<Check(ovalCheckType, OvalX)>>,
     <<Check(ovalCheckType, OvalY)>>,
     <<Check(ovalCheckType, NoColon)>>,
     <<Check(ovalCheckType, Blank)>>,
     <<CheckNoRef(ovalCheckType), Check(ovalCheckType, OvalX)>>,
     <<Check(ocilCheckType, NoColon), Check(ovalCheckType, OvalX),
       Check(ovalCheckType, NoColon)>>}

RuleIDs == {"rule1", "rule2"}

IDRefs == RuleIDs \cup {"rule3"}

DocTokens == {"fail", "notselected", "bogus"}

RuleResults == [idref : IDRefs, result : {<<>>} \cup {<<t>> : t \in DocTokens}]

Hosts == {"host1"}

BoundedDocs ==
    [target : {<<>>} \cup {<<h>> : h \in Hosts},
     rules : [RuleIDs -> RuleDefs],
     results : UNION {[1..n -> RuleResults] : n \in 0..MaxResults}]

Policies == {<<>>, <<<<IdX>>, <<IdX, IdZ>>>>}

ScenarioDoc(name) ==
    [target |-> <<"host1">>,
     rules |-> [r \in {"rule1"} |-> <<Check(ovalCheckType, name)>>],
     results |-> <<[idref |-> "rule1", result |-> <<"fail">>]>>]

ScenarioDocs == {ScenarioDoc(OvalSshd), ScenarioDoc(OvalX)}

ScenarioPolicies == {<<<<IdSshd>>>>, <<<<IdSshd1>>>>, <<<<IdY>>>>}

DocsFor(p) == IF p \in ScenarioPolicies THEN ScenarioDocs ELSE BoundedDocs

NoRet == [ObservationsByCheck |-> <<>>, err |-> NoErr]

NoOut == [name |-> <<>>, result |-> "", err |-> NoErr]

(* ------------------------- GetResults ---------------------------------- *)

Init ==
    /\ pc = "ScanSystem"
    /\ policy \in Policies \cup ScenarioPolicies
    /\ policyChecks = newChecks
    /\ xmlnode = <<>>
    /\ target = ""
    /\ ruleTable = [r \in {} |-> <<>>]
    /\ i = 0
    /\ pvpResults = <<>>
    /\ ret = NoRet
    /\ raw = <<>>
    /\ token = <<>>
    /\ out = NoOut

ReturnErr(e) ==
    /\ pc' = "done"
    /\ ret' = ErrorReturn(pvpResults, e)

ScanSystem ==
    /\ pc = "ScanSystem"
    /\ \/ pc' = "LoadPolicy" /\ ret' = ret
       \/ ReturnErr(ErrScan)
    /\ UNCHANGED <<policy, policyChecks, xmlnode, target, ruleTable, i,
                   pvpResults, raw, token, out>>

DoLoadPolicy ==
    /\ pc = "LoadPolicy"
    /\ policyChecks' = LoadPolicy(policyChecks, policy)
    /\ pc' = "Open"
    /\ UNCHANGED <<policy, xmlnode, target, ruleTable, i, pvpResults, ret,
                   raw, token, out>>

Open ==
    /\ pc = "Open"
    /\ \/ pc' = "ParseContent" /\ ret' = ret
       \/ ReturnErr(ErrOpen)
    /\ UNCHANGED <<policy, policyChecks, xmlnode, target, ruleTable, i,
                   pvpResults, raw, token, out>>

ParseContent ==
    /\ pc = "ParseContent"
    /\ \/ /\ \E doc \in DocsFor(policy) : xmlnode' = <<doc>>
          /\ pc' = "SelectTarget"
          /\ ret' = ret
       \/ /\ ReturnErr(ErrParse)
          /\ xmlnode' = xmlnode
    /\ UNCHANGED <<policy, policyChecks, target, ruleTable, i, pvpResults,
                   raw, token, out>>

SelectTarget ==
    /\ pc = "SelectTarget"
    /\ IF TargetMissing(xmlnode[1])
       THEN /\ ReturnErr(ErrNoTarget)
            /\ UNCHANGED <<target, ruleTable>>
       ELSE /\ target' = InnerText(xmlnode[1].target)
            /\ ruleTable' = xmlnode[1].rules
            /\ pc' = "Loop"
            /\ ret' = ret
    /\ UNCHANGED <<policy, policyChecks, xmlnode, i, pvpResults, raw, token,
                   out>>

RuleResult ==
    /\ pc = "Loop"
    /\ i < Len(xmlnode[1].results)
    /\ LET step == LoopBody(xmlnode[1].results[i + 1], ruleTable,
                            policyChecks, target)
       IN  IF step.kind = "return"
           THEN /\ ReturnErr(step.err)
                /\ UNCHANGED <<i, pvpResults>>
           ELSE /\ pvpResults' = IF step.kind = "append"
                                 THEN AppendObservation(pvpResults, step.obs[1])
                                 ELSE pvpResults
                /\ i' = i + 1
                /\ UNCHANGED <<pc, ret>>
    /\ UNCHANGED <<policy, policyChecks, xmlnode, target, ruleTable, raw,
                   token, out>>

Return ==
    /\ pc = "Loop"
    /\ i = Len(xmlnode[1].results)
    /\ pc' = "done"
    /\ ret' = [ObservationsByCheck |-> pvpResults, err |-> NoErr]
    /\ UNCHANGED <<policy, policyChecks, xmlnode, target, ruleTable, i,
                   pvpResults, raw, token, out>>

Next ==
    \/ ScanSystem
    \/ DoLoadPolicy
    \/ Open
    \/ ParseContent
    \/ SelectTarget
    \/ RuleResult
    \/ Return

Spec == Init /\ [][Next]_vars

(* ------------- parseCheck and mapResultStatus on their own ------------- *)

InitPure ==
    /\ \/ pc = "parseCheck" /\ raw \in Strings \cup SampleNames /\ token = <<>>
       \/ /\ pc = "mapResultStatus"
          /\ raw = <<>>
          /\ token \in {<<>>} \cup {<<t>> : t \in Tokens}
    /\ policy = <<>>
    /\ policyChecks = newChecks
    /\ xmlnode = <<>>
    /\ target = ""
    /\ ruleTable = [r \in {} |-> <<>>]
    /\ i = 0
    /\ pvpResults = <<>>
    /\ ret = NoRet
    /\ out = NoOut

CallParseCheck ==
    /\ pc = "parseCheck"
    /\ out' = [NoOut EXCEPT !.name = parseCheck(raw).name,
                            !.err = parseCheck(raw).err]
    /\ pc' = "parsed"
    /\ UNCHANGED <<policy, policyChecks, xmlnode, target, ruleTable, i,
                   pvpResults, ret, raw, token>>

CallMapResultStatus ==
    /\ pc = "mapResultStatus"
    /\ out' = [NoOut EXCEPT !.result = mapResultStatus(token).result,
                            !.err = mapResultStatus(token).err]
    /\ pc' = "mapped"
    /\ UNCHANGED <<policy, policyChecks, xmlnode, target, ruleTable, i,
                   pvpResults, ret, raw, token>>

NextPure ==
    \/ CallParseCheck
    \/ CallMapResultStatus

SpecPure == InitPure /\ [][NextPure]_vars

(* ======================= properties of the code ======================== *)

Min(S) == CHOOSE n \in S : \A m \in S : n <= m

Max(S) == CHOOSE n \in S : \A m \in S : n >= m

Positions(s, ch, from) == {n \in from..Len(s) : s[n] = ch}

IsBlank(s) == \A n \in 1..Len(s) : s[n] \in Whitespace

Trimmed(s) ==
    IF IsBlank(s) THEN <<>>
    ELSE SubSeq(s, Min({n \in 1..Len(s) : s[n] \notin Whitespace}),
                   Max({n \in 1..Len(s) : s[n] \notin Whitespace}))

FirstColon(s) == Min(Positions(s, ":", 1))

FirstHyphen(s) == Min(Positions(s, "-", FirstColon(s) + 1))

(* <prefix>:<namespace>-<shortname>:<suffix>                               *)
OfForm(s) ==
    /\ Positions(s, ":", 1) # {}
    /\ Positions(s, "-", FirstColon(s) + 1) # {}
    /\ Positions(s, ":", FirstHyphen(s) + 1) # {}

UpToFinalColon(s) ==
    SubSeq(s, FirstHyphen(s) + 1, Max(Positions(s, ":", 1)) - 1)

UpToNextColon(s) ==
    SubSeq(s, FirstHyphen(s) + 1,
           Min(Positions(s, ":", FirstHyphen(s) + 1)) - 1)

LineFree(s) == Positions(s, "\n", FirstHyphen(s) + 1) = {}

Done == pc = "done"

Parsed == xmlnode # <<>>

Doc == xmlnode[1]

Entered == Parsed /\ Doc.target # <<>>

NumResults == Len(Doc.results)

PolicySet == UNION {{policy[r][c] : c \in DOMAIN policy[r]} : r \in DOMAIN policy}

InIndex(r) == r.idref \in DOMAIN Doc.rules

OvalChecks(r) ==
    {n \in DOMAIN Doc.rules[r.idref] :
        Doc.rules[r.idref][n].system = ovalCheckType}

HasOval(r) == InIndex(r) /\ OvalChecks(r) # {}

RelevantCheck(r) == Doc.rules[r.idref][Min(OvalChecks(r))]

HasRef(r) == HasOval(r) /\ RelevantCheck(r).ref # <<>>

Normalized(r) == parseCheck(RelevantCheck(r).ref[1])

NormFails(r) == HasRef(r) /\ Normalized(r).err # NoErr

Member(r) ==
    HasRef(r) /\ Normalized(r).err = NoErr /\ Normalized(r).name \in PolicySet

NotInIndex(r) == ~InIndex(r)

NoRecognizedCheck(r) == InIndex(r) /\ ~HasOval(r)

NotInPolicy(r) ==
    HasRef(r) /\ Normalized(r).err = NoErr /\ Normalized(r).name \notin PolicySet

Skipped(r) == NotInIndex(r) \/ NoRecognizedCheck(r) \/ NotInPolicy(r)

ExpectedStatus(t) ==
    CASE t \in {"pass", "fixed"} -> ResultPass
      [] t = "fail" -> ResultFail
      [] t \in {"notselected", "notapplicable", "error", "unknown"} -> ResultError
      [] OTHER -> ResultInvalid

BadOutcome(r) == r.result = <<>> \/ ExpectedStatus(r.result[1]) = ResultInvalid

Fatal(r) == NormFails(r) \/ (Member(r) /\ BadOutcome(r))

NoEarlierFatal(k) == \A m \in 1..(k - 1) : ~Fatal(Doc.results[m])

MatchedResults == {k \in 1..NumResults : Member(Doc.results[k])}

Nth(S, n) == CHOOSE k \in S : Cardinality({m \in S : m < k}) = n - 1

IsScenario == Parsed /\ Doc = ScenarioDoc(OvalSshd)

Obs == ret.ObservationsByCheck

(* C1 (as stated): the scenario document with policy check set             *)
(* {"sshd_enabled"} yields no error and exactly one Observation with check *)
(* ID "sshd_enabled", result Fail, resource ID "host1" and a reason        *)
(* containing "fail".                                                      *)
C1_Original ==
    (Done /\ IsScenario /\ PolicySet = {IdSshd}) =>
        /\ ret.err = NoErr
        /\ Len(Obs) = 1
        /\ Obs[1].CheckID = IdSshd
        /\ Obs[1].Subjects[1].Result = ResultFail
        /\ Obs[1].Subjects[1].ResourceID = "host1"
        /\ \E n \in DOMAIN Obs[1].Subjects[1].Reason :
               Obs[1].Subjects[1].Reason[n] = "fail"

(* C1 (amended): the scenario's identifier normalizes to "sshd_enabled-1", *)
(* keeping the trailing "-1": with policy check set {"sshd_enabled"} the   *)
(* evaluation returns no error and no Observation; with policy check set   *)
(* {"sshd_enabled-1"} it returns no error and exactly one Observation with *)
(* check ID "sshd_enabled-1", result Fail, resource ID "host1" and a       *)
(* reason containing "fail".                                               *)
C1_ScenarioKeepsSuffix ==
    (Done /\ IsScenario) =>
        /\ ret.err = NoErr
        /\ PolicySet = {IdSshd} => Obs = <<>>
        /\ PolicySet = {IdSshd1} =>
              /\ Len(Obs) = 1
              /\ Obs[1].Title = "rule1"
              /\ Obs[1].CheckID = IdSshd1
              /\ Len(Obs[1].Subjects) = 1
              /\ Obs[1].Subjects[1].Result = ResultFail
              /\ Obs[1].Subjects[1].ResourceID = "host1"
              /\ \E n \in DOMAIN Obs[1].Subjects[1].Reason :
                     Obs[1].Subjects[1].Reason[n] = "fail"

C1_Witness == Done /\ IsScenario /\ PolicySet = {IdSshd} /\ i = 1

(* C2 (as stated): for an identifier of the documented form the short name *)
(* runs from right after the first hyphen following the first colon to     *)
(* right before the final colon of the string.                             *)
C2_Original ==
    (pc = "parsed" /\ OfForm(Trimmed(raw))) =>
        out.name = UpToFinalColon(Trimmed(raw))

(* C2 (amended): whenever parseCheck returns a short name without error,   *)
(* the trimmed identifier has the documented form and the short name runs  *)
(* from right after the first hyphen following the first colon to right    *)
(* before the first colon after that hyphen; every identifier of the form  *)
(* with no line feed after that hyphen is accepted.                        *)
C2_ShortNameEndsAtNextColon ==
    pc = "parsed" =>
        /\ out.err = NoErr =>
              /\ OfForm(Trimmed(raw))
              /\ out.name = UpToNextColon(Trimmed(raw))
        /\ (OfForm(Trimmed(raw)) /\ LineFree(Trimmed(raw))) => out.err = NoErr

C2_Witness == pc = "parsed" /\ raw = OvalX /\ out.name = IdX /\ out.err = NoErr

(* C3: mapResultStatus maps pass, fixed to Pass, fail to Fail,             *)
(* notselected, notapplicable, error, unknown to Error, all without error; *)
(* any other token and a missing result element give Invalid with an       *)
(* error; Invalid never comes without an error.                            *)
C3_StatusMapperExact ==
    pc = "mapped" =>
        /\ token # <<>> => out.result = ExpectedStatus(token[1])
        /\ token = <<>> => out.result = ResultInvalid
        /\ out.result \in {ResultPass, ResultFail, ResultError, ResultInvalid}
        /\ out.result = ResultInvalid <=> out.err # NoErr
        /\ (token # <<>> /\ token[1] \in {"pass", "fixed", "fail",
               "notselected", "notapplicable", "error", "unknown"})
              <=> out.err = NoErr

C3_Witness ==
    /\ pc = "mapped"
    /\ token = <<"Pass">>
    /\ out.result = ResultInvalid
    /\ out.err = ErrNoMatch

(* C4: parseCheck fails with the missing-name error and an empty short     *)
(* name for an empty or whitespace-only name, fails with the format error  *)
(* for every other name lacking a colon, a hyphen after the first colon or *)
(* a colon after that hyphen, and succeeds only for names of that shape.   *)
C4_ParseCheckFailures ==
    pc = "parsed" =>
        /\ IsBlank(raw) => (out.err = ErrNoName /\ out.name = <<>>)
        /\ (~IsBlank(raw) /\ ~OfForm(raw)) =>
              (out.err = ErrCheckFormat /\ out.name = <<>>)
        /\ out.err = NoErr => OfForm(raw)

C4_Witness ==
    /\ pc = "parsed"
    /\ ~IsBlank(raw)
    /\ Positions(raw, ":", 1) = {}
    /\ Positions(raw, "-", 1) # {}
    /\ out.err = ErrCheckFormat

(* C5: an error is never returned together with a non-empty result set,    *)
(* also when observations had been collected before the fatal rule-result. *)
C5_AllOrNothing ==
    /\ ret.err # NoErr => (Done /\ Obs = <<>>)
    /\ ~Done => ret = NoRet

C5_Witness == Done /\ ret.err # NoErr /\ pvpResults # <<>>

(* C6: a rule-result whose rule is absent from the index, whose rule has   *)
(* no check of the OVAL system, or whose normalized check ID is not in the *)
(* policy check set adds no observation and raises no error, leaving the   *)
(* observations of the other rule-results as they are; a document whose    *)
(* rule-results are all of these kinds yields an empty result set and no   *)
(* error.                                                                  *)
C6_SkipsAreSilent ==
    /\ [][(pc = "Loop" /\ i < NumResults /\ Skipped(Doc.results[i + 1])) =>
            /\ pc' = "Loop"
            /\ i' = i + 1
            /\ pvpResults' = pvpResults
            /\ ret' = NoRet]_vars
    /\ []((Done /\ Entered /\ \A k \in 1..NumResults : Skipped(Doc.results[k]))
            => (ret.err = NoErr /\ Obs = <<>>))

C6_Witness ==
    /\ Done
    /\ Parsed
    /\ Doc = ScenarioDoc(OvalX)
    /\ PolicySet = {IdY}
    /\ ret = NoRet
    /\ i = 1

(* C7: without a fatal condition the result set holds, in rule-result      *)
(* order, one Observation per rule-result that is indexed, has a           *)
(* recognized check and a normalized check ID in the policy check set:     *)
(* title = rule identifier, check ID = normalized ID, one subject with the *)
(* target host and the mapped status (never Invalid); zero rule-results    *)
(* give an empty result set and no error.                                  *)
C7_OutputIsMatchedInOrder ==
    (Done /\ Entered) =>
        /\ (\A k \in 1..NumResults : ~Fatal(Doc.results[k])) <=> ret.err = NoErr
        /\ ret.err = NoErr =>
              /\ Len(Obs) = Cardinality(MatchedResults)
              /\ \A n \in 1..Len(Obs) :
                    LET r == Doc.results[Nth(MatchedResults, n)]
                    IN  /\ Obs[n].Title = r.idref
                        /\ Obs[n].CheckID = Normalized(r).name
                        /\ Obs[n].CheckID \in PolicySet
                        /\ Len(Obs[n].Subjects) = 1
                        /\ Obs[n].Subjects[1].ResourceID = Doc.target[1]
                        /\ Obs[n].Subjects[1].Result =
                               ExpectedStatus(r.result[1])
                        /\ Obs[n].Subjects[1].Result \in
                               {ResultPass, ResultFail, ResultError}

C7_Witness ==
    /\ Done
    /\ Entered
    /\ ret.err = NoErr
    /\ Len(Obs) = 2
    /\ Obs[1] # Obs[2]
    /\ NumResults = 2

(* C8: a document without a target element makes the evaluation return    *)
(* the missing-target error whatever its rule-results, rules and policy,   *)
(* before any rule-result is processed.                                    *)
C8_MissingTargetIsFatal ==
    (Done /\ Parsed /\ Doc.target = <<>>) =>
        /\ ret.err = ErrNoTarget
        /\ Obs = <<>>
        /\ i = 0
        /\ pvpResults = <<>>

C8_Witness ==
    /\ Done
    /\ Parsed
    /\ Doc.target = <<>>
    /\ NumResults > 0
    /\ Member(Doc.results[1])
    /\ ret.err = ErrNoTarget

(* C9: a rule-result whose rule is indexed and has a recognized check      *)
(* reference whose name fails to normalize makes the evaluation end with   *)
(* an error and no observations, wherever it sits and whatever the policy  *)
(* check set holds; the error is that rule-result's normalization error    *)
(* when no earlier rule-result is fatal.                                   *)
C9_NormalizationFailureAborts ==
    (Done /\ Parsed) =>
        \A k \in 1..NumResults :
            NormFails(Doc.results[k]) =>
                /\ ret.err # NoErr
                /\ Obs = <<>>
                /\ (Entered /\ NoEarlierFatal(k)) =>
                      /\ i = k - 1
                      /\ ret.err = Normalized(Doc.results[k]).err
                      /\ ret.err \in {ErrNoName, ErrCheckFormat}

C9_Witness ==
    /\ Done
    /\ Entered
    /\ PolicySet = {}
    /\ i = 1
    /\ NumResults > 1
    /\ NormFails(Doc.results[2])
    /\ ret.err = ErrCheckFormat

(* C10: an unrecognized or missing outcome aborts the evaluation exactly   *)
(* when its rule-result is indexed, has a recognized check that normalizes *)
(* into the policy check set, and no earlier rule-result is fatal; on a    *)
(* skipped rule-result it causes no error.                                 *)
C10_StatusMappedAfterMembership ==
    (Done /\ Entered) =>
        \A k \in 1..NumResults :
            BadOutcome(Doc.results[k]) =>
                ((ret.err \in {ErrNoResult, ErrNoMatch} /\ i = k - 1)
                    <=> (Member(Doc.results[k]) /\ NoEarlierFatal(k)))

C10_Witness ==
    /\ Done
    /\ Entered
    /\ ret.err = NoErr
    /\ Len(Obs) = 1
    /\ \E k \in 1..NumResults :
           BadOutcome(Doc.results[k]) /\ NotInPolicy(Doc.results[k])

====
